---- MODULE Spec2Model ----
(***************************************************************************)
(* Model of src/main.py: a FastAPI service that generates "dating          *)
(* suggestion" quotes through an upstream chat-completion endpoint, keeps  *)
(* them in the in-memory list quotes_history and regenerates one per day   *)
(* through an APScheduler AsyncIOScheduler job.                            *)
(*                                                                         *)
(* Concurrency model.  All `async def` handlers and the scheduled job run  *)
(* on one asyncio event loop: a coroutine is only suspended at an `await`  *)
(* (here: the `await generate_quote()` of store_daily_quote and of         *)
(* get_latest_quote), everything between two awaits is one atomic step.    *)
(* get_schedule is a plain `def`, which FastAPI runs on a worker thread,   *)
(* so it may run between the two scheduler calls of set_schedule.          *)
(*                                                                         *)
(* Strings are sequences of one-character strings, so that strip() and the *)
(* number formatting of the handlers are computed, not assumed.            *)
(***************************************************************************)
EXTENDS Integers, Sequences, FiniteSets, TLC

VARIABLES
    phase,           \* "created" | "running" | "stopped" (startup/shutdown events)
    jobs,            \* the scheduler's job store: sequence of [id, hour, minute]
    setpc,           \* set_schedule between remove_all_jobs and add_job, or Idle
    quotes_history,  \* src/main.py:30
    inflight,        \* coroutines suspended in `await generate_quote()`, per kind
    clock,           \* last value read from datetime.now() (seconds)
    reply,           \* what the last step returned to its HTTP client
    genCalls,        \* history variable: generate_quote calls started
    appended,        \* history variable: quotes_history.append calls performed
    latestAppended,  \* history variable: appends done by get_latest_quote
    overlapped,      \* history variable: two generation calls were in flight at once
    lastSet,         \* history variable: outcome of the latest set_schedule
    setCalls,        \* history variable: set_schedule requests received
    firing,          \* the run of the job's function that is in flight, or how it ended
    call,            \* the upstream outcome given to a stand-alone generate_quote call
    result           \* what that call returned or raised

vars == <<phase, jobs, setpc, quotes_history, inflight, clock, reply, genCalls,
          appended, latestAppended, overlapped, lastSet, setCalls, firing, call, result>>

-----------------------------------------------------------------------------
(* Bounds of the model *)

\* generate_quote calls in a behaviour of Spec
MaxGen == 2
\* generate_quote calls in a behaviour of SpecFill (enough to pass the capacity)
FillGen == 32
\* coroutines suspended in generate_quote at the same time
MaxInflight == 2
\* set_schedule requests in a behaviour
MaxSet == 2
\* largest clock reading
MaxClock == 1

-----------------------------------------------------------------------------
(* Program constants *)

\* src/main.py:100  `if len(quotes_history) > 30`
MAX_HISTORY == 30
\* src/main.py:173  CronTrigger(hour=9, minute=0)
DefaultHour == 9
DefaultMinute == 0

\* src/main.py:82-88  the five fallback quotes
NumFallbacks == 5
\* src/main.py:41-49  the seven prompts
NumPrompts == 7

Idle == [pc |-> "idle"]
NoReply == [op |-> "none"]
NoCall == [net |-> "none"]
NoResult == [outcome |-> "none"]
Never == [state |-> "never"]
NoFiring == [state |-> "none"]

-----------------------------------------------------------------------------
(* Strings *)

Whitespace == {" ", "\t", "\n"}

RECURSIVE lstrip(_)
lstrip(s) ==
    IF s # <<>> /\ Head(s) \in Whitespace THEN lstrip(Tail(s)) ELSE s

RECURSIVE rstrip(_)
rstrip(s) ==
    IF s # <<>> /\ s[Len(s)] \in Whitespace
    THEN rstrip(SubSeq(s, 1, Len(s) - 1))
    ELSE s

\* str.strip(): leading and trailing whitespace removed
strip(s) == rstrip(lstrip(s))

Digit(d) ==
    CASE d = 0 -> "0" [] d = 1 -> "1" [] d = 2 -> "2" [] d = 3 -> "3"
      [] d = 4 -> "4" [] d = 5 -> "5" [] d = 6 -> "6" [] d = 7 -> "7"
      [] d = 8 -> "8" [] d = 9 -> "9"

DigitValue(c) ==
    CASE c = "0" -> 0 [] c = "1" -> 1 [] c = "2" -> 2 [] c = "3" -> 3
      [] c = "4" -> 4 [] c = "5" -> 5 [] c = "6" -> 6 [] c = "7" -> 7
      [] c = "8" -> 8 [] c = "9" -> 9

\* str(n) of a natural number: decimal digits, no padding
RECURSIVE Str(_)
Str(n) == IF n < 10 THEN <<Digit(n)>> ELSE Append(Str(n \div 10), Digit(n % 10))

\* f"{n:02d}" of a natural number: zero-padded to two digits
Pad2(n) == IF n < 10 THEN <<"0", Digit(n)>> ELSE Str(n)

-----------------------------------------------------------------------------
(* generate_quote, src/main.py:32-89 *)

\* JSON values are tagged records: str, num, null, arr (e: elements), obj (f: fields)
JStr(s) == [t |-> "str", v |-> s]
JNum(n) == [t |-> "num", v |-> n]
JNull == [t |-> "null"]
JArr(e) == [t |-> "arr", e |-> e]
JObj(f) == [t |-> "obj", f |-> f]
\* an exception of class e travelling up the try block
Raise(e) == [t |-> "raise", e |-> e]
IsRaise(v) == v.t = "raise"

\* value[key] for a string key
GetKey(v, k) ==
    CASE IsRaise(v) -> v
      [] v.t = "obj" -> IF k \in DOMAIN v.f THEN v.f[k] ELSE Raise("KeyError")
      [] OTHER -> Raise("TypeError")

\* value[0]
GetFirst(v) ==
    CASE IsRaise(v) -> v
      [] v.t = "arr" -> IF v.e # <<>> THEN v.e[1] ELSE Raise("IndexError")
      [] v.t = "str" -> IF v.v # <<>> THEN JStr(<<v.v[1]>>) ELSE Raise("IndexError")
      [] v.t = "obj" -> Raise("KeyError")
      [] OTHER -> Raise("TypeError")

\* value.strip()
CallStrip(v) ==
    CASE IsRaise(v) -> v
      [] v.t = "str" -> JStr(strip(v.v))
      [] OTHER -> Raise("AttributeError")

\* the five fallback quotes (lines 82-88), as distinct non-empty texts
fallback_quotes == [i \in 1..NumFallbacks |-> <<"F", Digit(i)>>]

\* line 73, await client.post(...): a transport error or the 30 s timeout raises
Post(r) ==
    CASE r.net = "ok" -> [t |-> "response", r |-> r]
      [] r.net = "timeout" -> Raise("TimeoutException")
      [] OTHER -> Raise("ConnectError")

\* line 74, response.raise_for_status(): raises unless the status is 2xx
\* (httpx raises HTTPStatusError for 1xx, 3xx, 4xx and 5xx)
RaiseForStatus(r) ==
    IF r.status >= 200 /\ r.status <= 299
    THEN [t |-> "response", r |-> r]
    ELSE Raise("HTTPStatusError")

\* line 75, response.json(): raises on a body that is not JSON
ResponseJson(r) == IF r.body = "json" THEN r.data ELSE Raise("JSONDecodeError")

\* lines 72-77, the body of the try block: the stripped text, or the exception
TryBlock(r) ==
    LET response == Post(r)
        checked == IF IsRaise(response) THEN response ELSE RaiseForStatus(response.r)
        data == IF IsRaise(checked) THEN checked ELSE ResponseJson(checked.r)
        content == GetKey(GetKey(GetFirst(GetKey(data, "choices")), "message"), "content")
    IN  CallStrip(content)

\* the classes raised above; all derive from Exception
ExceptionClasses ==
    { "TimeoutException", "ConnectError", "HTTPStatusError", "JSONDecodeError",
      "KeyError", "IndexError", "TypeError", "AttributeError" }

\* mutation of Caught: the clause names httpx.HTTPError instead of Exception
CaughtHttpErrorOnly(e) ==
    e \in {"TimeoutException", "ConnectError", "HTTPStatusError"}

\* mutation of Caught: the clause names httpx.HTTPStatusError instead of Exception
CaughtStatusErrorOnly(e) == e = "HTTPStatusError"

\* line 79, `except Exception`: the classes the clause catches
Caught(e) == e \in ExceptionClasses

\* generate_quote: r is what the upstream call does, fb the index random.choice
\* draws at line 89.  [outcome |-> "return", value] or [outcome |-> "raise", e].
generate_quote(r, fb) ==
    LET quote == TryBlock(r)
    IN  IF ~IsRaise(quote) THEN [outcome |-> "return", value |-> quote.v]
        ELSE IF Caught(quote.e) THEN [outcome |-> "return", value |-> fallback_quotes[fb]]
        ELSE [outcome |-> "raise", e |-> quote.e]

\* Upstream outcomes
Completion(content) ==
    JObj([choices |-> JArr(<<JObj([message |-> JObj([role |-> JStr(<<"x">>),
                                                     content |-> content])])>>)])

Http(status, data) == [net |-> "ok", status |-> status, body |-> "json", data |-> data]

Texts == { <<>>, <<" ">>, <<"\n", " ">>, <<"a">>, <<" ", "a", " ">>,
           <<"a", " ", "b">>, <<"\t", "a", " ", "b", "\n">> }

GoodResponses == { Http(s, Completion(JStr(x))) : s \in {200, 201}, x \in Texts }

FailedResponses ==
    { [net |-> "connect_error"], [net |-> "timeout"] }
    \cup { Http(s, Completion(JStr(<<"a">>))) : s \in {199, 300, 301, 404, 429, 500, 503} }
    \cup { [net |-> "ok", status |-> 200, body |-> "garbage"] }
    \cup { Http(200, d) : d \in
              { JNull, JNum(1), JStr(<<"a">>), JArr(<<>>),
                JObj([error |-> JStr(<<"x">>)]),
                JObj([choices |-> JNull]),
                JObj([choices |-> JArr(<<>>)]),
                JObj([choices |-> JStr(<<"a">>)]),
                JObj([choices |-> JArr(<<JNull>>)]),
                JObj([choices |-> JArr(<<JObj([text |-> JStr(<<"a">>)])>>)]),
                JObj([choices |-> JArr(<<JObj([message |-> JNull])>>)]),
                JObj([choices |-> JArr(<<JObj([message |-> JStr(<<"a">>)])>>)]),
                JObj([choices |-> JArr(<<JObj([message |-> JObj([role |-> JStr(<<"x">>)])])>>)]),
                Completion(JNull), Completion(JNum(1)),
                Completion(JArr(<<JStr(<<"a">>)>>)),
                Completion(JObj([text |-> JStr(<<"a">>)])) } }

Responses == GoodResponses \cup FailedResponses

-----------------------------------------------------------------------------
(* The history, src/main.py:26-30 and 91-119 *)

\* Quote(quote=..., timestamp=...); seq is a history field: the append's number
Quote(quote_text, timestamp, n) ==
    [quote |-> quote_text, timestamp |-> timestamp, seq |-> n]

\* mutation of store_daily_quote: pop() instead of pop(0)
store_daily_quote_pop_last(history, quote) ==
    LET appended_to == Append(history, quote)
    IN  IF Len(appended_to) > MAX_HISTORY
        THEN SubSeq(appended_to, 1, Len(appended_to) - 1)
        ELSE appended_to

\* mutation of store_daily_quote: `>=` instead of `>`
store_daily_quote_off_by_one(history, quote) ==
    LET appended_to == Append(history, quote)
    IN  IF Len(appended_to) >= MAX_HISTORY THEN Tail(appended_to) ELSE appended_to

\* mutation of store_daily_quote: insert(0, quote) instead of append(quote)
store_daily_quote_insert_front(history, quote) ==
    LET inserted == <<quote>> \o history
    IN  IF Len(inserted) > MAX_HISTORY THEN Tail(inserted) ELSE inserted

\* mutation of store_daily_quote: the append is left out
store_daily_quote_no_append(history, quote) ==
    IF Len(history) > MAX_HISTORY THEN Tail(history) ELSE history

\* lines 97-101: append, then drop index 0 when longer than 30
store_daily_quote(history, quote) ==
    LET appended_to == Append(history, quote)
    IN  IF Len(appended_to) > MAX_HISTORY THEN Tail(appended_to) ELSE appended_to

\* mutation of get_latest_quote_append: the quote is appended twice
get_latest_quote_append_twice(history, quote) == Append(Append(history, quote), quote)

\* line 118: get_latest_quote appends and does nothing else
get_latest_quote_append(history, quote) == Append(history, quote)

InflightTotal == inflight.generate_now + inflight.job + inflight.latest

-----------------------------------------------------------------------------
(* The scheduler, src/main.py:121-161 and 168-181 *)

Job(hour, minute) == [id |-> "daily_quote", hour |-> hour, minute |-> minute]

\* scheduler.add_job: a job whose id is already stored is refused (ConflictingIdError)
add_job(js, job) ==
    IF \E i \in DOMAIN js : js[i].id = job.id THEN js ELSE Append(js, job)

\* mutation of remove_all_jobs: the existing jobs are kept
remove_all_jobs_keeps(js) == js

\* scheduler.remove_all_jobs
remove_all_jobs(js) == <<>>

\* CronTrigger(hour=, minute=) raises ValueError for a value outside the field's
\* range (APScheduler validates the expressions when the trigger is built)
CronTrigger(hour, minute) ==
    IF hour \in 0..23 /\ minute \in 0..59
    THEN [ok |-> TRUE, hour |-> hour, minute |-> minute]
    ELSE [ok |-> FALSE]

\* lines 134-137: the reply of set_schedule
set_schedule_reply(hour, minute) ==
    [op |-> "set_schedule", status |-> 201,
     schedule |-> Pad2(hour) \o <<":">> \o Pad2(minute)]

\* job.trigger.fields of a CronTrigger(hour=, minute=): the fields before the
\* hour default to "*", the second after the minute to its minimum
TriggerFields(job) ==
    << [name |-> "year", expr |-> <<"*">>],
       [name |-> "month", expr |-> <<"*">>],
       [name |-> "day", expr |-> <<"*">>],
       [name |-> "week", expr |-> <<"*">>],
       [name |-> "day_of_week", expr |-> <<"*">>],
       [name |-> "hour", expr |-> Str(job.hour)],
       [name |-> "minute", expr |-> Str(job.minute)],
       [name |-> "second", expr |-> <<"0">>] >>

\* a dict: d[k] = v, and d.get(k, default)
DictPut(d, k, v) == [x \in DOMAIN d \cup {k} |-> IF x = k THEN v ELSE d[x]]
DictGet(d, k, default) == IF k \in DOMAIN d THEN d[k] ELSE default
EmptyDict == [x \in {} |-> <<>>]

\* mutation of FieldLoop: the hour field is looked up under the name "hours"
RECURSIVE FieldLoopHoursTypo(_, _)
FieldLoopHoursTypo(fields, schedule_info) ==
    IF fields = <<>> THEN schedule_info
    ELSE LET field == Head(fields)
         IN  FieldLoopHoursTypo(Tail(fields),
                 IF field.name = "hours"
                 THEN DictPut(schedule_info, "hour", field.expr)
                 ELSE IF field.name = "minute"
                 THEN DictPut(schedule_info, "minute", field.expr)
                 ELSE schedule_info)

\* lines 150-156: the loop over trigger.fields that fills schedule_info
RECURSIVE FieldLoop(_, _)
FieldLoop(fields, schedule_info) ==
    IF fields = <<>> THEN schedule_info
    ELSE LET field == Head(fields)
         IN  FieldLoop(Tail(fields),
                 IF field.name = "hour"
                 THEN DictPut(schedule_info, "hour", field.expr)
                 ELSE IF field.name = "minute"
                 THEN DictPut(schedule_info, "minute", field.expr)
                 ELSE schedule_info)

\* mutation of get_schedule: the minute is taken from the hour field
get_schedule_hour_twice(js) ==
    IF js = <<>>
    THEN [op |-> "get_schedule", status |-> 200,
          message |-> "No scheduled quote generation"]
    ELSE LET job == js[1]
         IN  [op |-> "get_schedule", status |-> 200,
              next_run |-> <<job.hour, job.minute>>,
              schedule |-> Str(job.hour) \o <<":">> \o Str(job.hour)]

\* lines 142-161: the reply of get_schedule for the jobs it reads
get_schedule(js) ==
    IF js = <<>>
    THEN [op |-> "get_schedule", status |-> 200,
          message |-> "No scheduled quote generation"]
    ELSE LET job == js[1]
             schedule_info == FieldLoop(TriggerFields(job), EmptyDict)
         IN  [op |-> "get_schedule", status |-> 200,
              next_run |-> <<job.hour, job.minute>>,
              schedule |-> DictGet(schedule_info, "hour", <<"0", "0">>)
                           \o <<":">>
                           \o DictGet(schedule_info, "minute", <<"0", "0">>)]

\* "H:M" or "HH:MM" read back as <<hour, minute>>
RECURSIVE ParseInt(_)
ParseInt(s) ==
    IF s = <<>> THEN 0
    ELSE 10 * ParseInt(SubSeq(s, 1, Len(s) - 1)) + DigitValue(s[Len(s)])

ColonAt(s) == CHOOSE i \in DOMAIN s : s[i] = ":"

ParseSchedule(s) ==
    <<ParseInt(SubSeq(s, 1, ColonAt(s) - 1)),
      ParseInt(SubSeq(s, ColonAt(s) + 1, Len(s)))>>

-----------------------------------------------------------------------------
(* Inputs *)

\* path parameters of POST /schedule/{hour}/{minute}: valid and invalid integers
Hours == {14, 23, 24}
Minutes == {5, 60}

\* what the upstream does in a behaviour of Spec: text, blank text, a timeout
SpecResponses ==
    { Http(200, Completion(JStr(<<" ", "a", " ">>))),
      Http(200, Completion(JStr(<<" ">>))),
      [net |-> "timeout"] }

\* the environment of a specification: how many generations, which upstream
\* outcomes, which fallback draws, how far the clock runs
FullEnv ==
    [gen |-> MaxGen, responses |-> SpecResponses,
     picks |-> {1, NumFallbacks}, clock |-> MaxClock]

FillEnv ==
    [gen |-> FillGen, responses |-> {Http(200, Completion(JStr(<<"a">>)))},
     picks |-> {1}, clock |-> 0]

\* the environment of SpecLive: every kind of upstream outcome, one fallback draw,
\* fixed clock
LiveEnv ==
    [gen |-> MaxGen, responses |-> SpecResponses, picks |-> {1}, clock |-> 0]

-----------------------------------------------------------------------------
(* Actions *)

Init ==
    /\ phase = "created"
    /\ jobs = <<>>
    /\ setpc = Idle
    /\ quotes_history = <<>>
    /\ inflight = [generate_now |-> 0, job |-> 0, latest |-> 0]
    /\ clock = 0
    /\ reply = NoReply
    /\ genCalls = 0
    /\ appended = 0
    /\ latestAppended = 0
    /\ overlapped = FALSE
    /\ lastSet = Never
    /\ setCalls = 0
    /\ firing = NoFiring
    /\ call = NoCall
    /\ result = NoResult

\* the event loop is free to run a handler or a job
LoopFree == phase = "running" /\ setpc = Idle

historyVars == <<quotes_history, inflight, clock, genCalls, appended,
                 latestAppended, overlapped>>
schedVars == <<jobs, setpc, lastSet, setCalls>>
genVars == <<call, result>>

\* lines 168-177
startup_event ==
    /\ phase = "created"
    /\ jobs' = add_job(jobs, Job(DefaultHour, DefaultMinute))
    /\ phase' = "running"
    /\ reply' = NoReply
    /\ UNCHANGED <<setpc, lastSet, setCalls, historyVars, firing, genVars>>

\* lines 179-181.  The server runs the shutdown handlers once the requests in
\* flight have been answered, so only a run of the job can still be suspended.
\* scheduler.shutdown() stops the scheduler; whether its asyncio executor cancels
\* the run in flight depends on the APScheduler release, so both outcomes are
\* possible: the run is left to resume, or it is cancelled at its await
\* (CancelledError is not an Exception: line 79 does not catch it, nothing is
\* appended).
shutdown_event ==
    /\ LoopFree
    /\ inflight.generate_now = 0
    /\ inflight.latest = 0
    /\ phase' = "stopped"
    /\ reply' = NoReply
    /\ \/ UNCHANGED <<inflight, firing>>
       \/ /\ inflight.job > 0
          /\ inflight' = [inflight EXCEPT !.job = 0]
          /\ firing' = [state |-> "cancelled"]
    /\ UNCHANGED <<schedVars, quotes_history, clock, genCalls, appended,
                   latestAppended, overlapped, genVars>>

\* a coroutine calls generate_quote and is suspended at its await
BeginGeneration(env, kind) ==
    /\ genCalls < env.gen
    /\ InflightTotal < MaxInflight
    /\ inflight' = [inflight EXCEPT ![kind] = @ + 1]
    /\ genCalls' = genCalls + 1
    /\ overlapped' = (overlapped \/ InflightTotal > 0)

\* lines 163-166 and 93: POST /generate-now up to the await
generate_now_call(env) ==
    /\ LoopFree
    /\ BeginGeneration(env, "generate_now")
    /\ reply' = NoReply
    /\ UNCHANGED <<phase, schedVars, quotes_history, clock, appended,
                   latestAppended, firing, genVars>>

\* the scheduler runs the job's function up to the await; APScheduler's default
\* max_instances = 1 skips a firing while the previous run is still in flight
job_fire(env) ==
    /\ LoopFree
    /\ jobs # <<>>
    /\ inflight.job = 0
    /\ BeginGeneration(env, "job")
    /\ firing' = [state |-> "running", hour |-> jobs[1].hour,
                  minute |-> jobs[1].minute]
    /\ reply' = NoReply
    /\ UNCHANGED <<phase, schedVars, quotes_history, clock, appended,
                   latestAppended, genVars>>

\* lines 93-104: store_daily_quote from the return of generate_quote on
store_daily_quote_resume(kind, r, fb, now) ==
    /\ phase # "created"
    /\ setpc = Idle
    /\ inflight[kind] > 0
    /\ LET got == generate_quote(r, fb)
           quote == Quote(got.value, now, appended + 1)
       IN  /\ inflight' = [inflight EXCEPT ![kind] = @ - 1]
           /\ IF got.outcome = "return"
              THEN /\ quotes_history' = store_daily_quote(quotes_history, quote)
                   /\ clock' = now
                   /\ appended' = appended + 1
                   /\ reply' = IF kind = "generate_now"
                               THEN [op |-> "generate_now", status |-> 200,
                                     body |-> quote]
                               ELSE NoReply
              ELSE /\ UNCHANGED <<quotes_history, clock, appended>>
                   /\ reply' = IF kind = "generate_now"
                               THEN [op |-> "generate_now", status |-> 500]
                               ELSE NoReply
    /\ firing' = IF kind # "job" THEN firing
                 ELSE IF phase = "stopped" THEN [state |-> "finished_after_shutdown"]
                 ELSE NoFiring
    /\ UNCHANGED <<phase, schedVars, genCalls, latestAppended, overlapped, genVars>>

\* lines 106-109
get_quotes ==
    /\ LoopFree
    /\ reply' = [op |-> "get_quotes", status |-> 200, body |-> quotes_history]
    /\ UNCHANGED <<phase, schedVars, historyVars, firing, genVars>>

\* mutation of get_latest_quote_hit: quotes_history[0] instead of quotes_history[-1]
get_latest_quote_hit_first ==
    /\ LoopFree
    /\ quotes_history # <<>>
    /\ reply' = [op |-> "latest", status |-> 200, generated |-> FALSE,
                 body |-> quotes_history[1]]
    /\ UNCHANGED <<phase, schedVars, historyVars, firing, genVars>>

\* lines 114 and 119: GET /latest on a history that holds something
get_latest_quote_hit ==
    /\ LoopFree
    /\ quotes_history # <<>>
    /\ reply' = [op |-> "latest", status |-> 200, generated |-> FALSE,
                 body |-> quotes_history[Len(quotes_history)]]
    /\ UNCHANGED <<phase, schedVars, historyVars, firing, genVars>>

\* lines 114-115: GET /latest on an empty history, up to the await
get_latest_quote_call(env) ==
    /\ LoopFree
    /\ quotes_history = <<>>
    /\ BeginGeneration(env, "latest")
    /\ reply' = NoReply
    /\ UNCHANGED <<phase, schedVars, quotes_history, clock, appended,
                   latestAppended, firing, genVars>>

\* lines 115-119: GET /latest from the return of generate_quote on
get_latest_quote_resume(r, fb, now) ==
    /\ phase # "created"
    /\ setpc = Idle
    /\ inflight.latest > 0
    /\ LET got == generate_quote(r, fb)
           quote == Quote(got.value, now, appended + 1)
       IN  /\ inflight' = [inflight EXCEPT !.latest = @ - 1]
           /\ IF got.outcome = "return"
              THEN /\ quotes_history' = get_latest_quote_append(quotes_history, quote)
                   /\ clock' = now
                   /\ appended' = appended + 1
                   /\ latestAppended' = latestAppended + 1
                   /\ reply' = [op |-> "latest", status |-> 200, generated |-> TRUE,
                                body |-> quotes_history'[Len(quotes_history')]]
              ELSE /\ UNCHANGED <<quotes_history, clock, appended, latestAppended>>
                   /\ reply' = [op |-> "latest", status |-> 500]
    /\ UNCHANGED <<phase, schedVars, genCalls, overlapped, firing, genVars>>

\* lines 122-125: POST /schedule/{hour}/{minute} up to remove_all_jobs
set_schedule_remove(hour, minute) ==
    /\ LoopFree
    /\ setCalls < MaxSet
    /\ setCalls' = setCalls + 1
    /\ jobs' = remove_all_jobs(jobs)
    /\ setpc' = [pc |-> "add", hour |-> hour, minute |-> minute, before |-> jobs]
    /\ lastSet' = [state |-> "in_progress"]
    /\ reply' = NoReply
    /\ UNCHANGED <<phase, historyVars, firing, genVars>>

\* lines 128-137: the trigger is built, the job added, the reply returned
set_schedule_add ==
    /\ phase = "running"
    /\ setpc # Idle
    /\ LET trigger == CronTrigger(setpc.hour, setpc.minute)
       IN  IF trigger.ok
           THEN /\ jobs' = add_job(jobs, Job(trigger.hour, trigger.minute))
                /\ reply' = set_schedule_reply(setpc.hour, setpc.minute)
                /\ lastSet' = [state |-> "ok", hour |-> setpc.hour,
                               minute |-> setpc.minute]
           ELSE /\ jobs' = jobs
                /\ reply' = [op |-> "set_schedule", status |-> 500]
                /\ lastSet' = [state |-> "failed", before |-> setpc.before]
    /\ setpc' = Idle
    /\ UNCHANGED <<phase, setCalls, historyVars, firing, genVars>>

\* lines 139-161: GET /current-schedule, on a worker thread
get_schedule_request ==
    /\ phase = "running"
    /\ reply' = get_schedule(jobs)
    /\ UNCHANGED <<phase, schedVars, historyVars, firing, genVars>>

Resume(env) ==
    \E r \in env.responses, fb \in env.picks, now \in clock..env.clock :
        \/ \E kind \in {"generate_now", "job"} : store_daily_quote_resume(kind, r, fb, now)
        \/ get_latest_quote_resume(r, fb, now)

Next ==
    \/ startup_event
    \/ shutdown_event
    \/ generate_now_call(FullEnv)
    \/ job_fire(FullEnv)
    \/ get_latest_quote_call(FullEnv)
    \/ Resume(FullEnv)
    \/ get_quotes
    \/ get_latest_quote_hit
    \/ \E hour \in Hours, minute \in Minutes : set_schedule_remove(hour, minute)
    \/ set_schedule_add
    \/ get_schedule_request

Spec == Init /\ [][Next]_vars

\* the history filled past its capacity: the upstream always answers, fixed clock
NextFill ==
    \/ startup_event
    \/ shutdown_event
    \/ generate_now_call(FillEnv)
    \/ job_fire(FillEnv)
    \/ get_latest_quote_call(FillEnv)
    \/ Resume(FillEnv)
    \/ get_quotes
    \/ get_latest_quote_hit

SpecFill == Init /\ [][NextFill]_vars

\* Fairness.  client.post returns or raises within its 30 s timeout (line 72) and
\* the event loop then resumes the coroutine that awaits it; a handler that has
\* started runs on to its next await or its return.
StoreResume(env, kind) ==
    \E r \in env.responses, fb \in env.picks, now \in clock..env.clock :
        store_daily_quote_resume(kind, r, fb, now)

LatestResume(env) ==
    \E r \in env.responses, fb \in env.picks, now \in clock..env.clock :
        get_latest_quote_resume(r, fb, now)

\* the steps that start, end or delay a generation (the readers left out)
NextLive ==
    \/ startup_event
    \/ shutdown_event
    \/ generate_now_call(LiveEnv)
    \/ job_fire(LiveEnv)
    \/ get_latest_quote_call(LiveEnv)
    \/ Resume(LiveEnv)
    \/ \E hour \in {14, 24} : set_schedule_remove(hour, 5)
    \/ set_schedule_add

SpecLive ==
    /\ Init /\ [][NextLive]_vars
    /\ WF_vars(StoreResume(LiveEnv, "generate_now"))
    /\ WF_vars(StoreResume(LiveEnv, "job"))
    /\ WF_vars(LatestResume(LiveEnv))
    /\ WF_vars(set_schedule_add)

-----------------------------------------------------------------------------
(* generate_quote on its own: every upstream outcome, every random draw *)

InitGen ==
    /\ phase = "created"
    /\ jobs = <<>>
    /\ setpc = Idle
    /\ quotes_history = <<>>
    /\ inflight = [generate_now |-> 0, job |-> 0, latest |-> 0]
    /\ clock = 0
    /\ reply = NoReply
    /\ genCalls = 0
    /\ appended = 0
    /\ latestAppended = 0
    /\ overlapped = FALSE
    /\ lastSet = Never
    /\ setCalls = 0
    /\ firing = NoFiring
    /\ call \in [r : Responses, prompt : 1..NumPrompts, fb : 1..NumFallbacks]
    /\ result = NoResult

\* lines 32-89, one call
generate_quote_call ==
    /\ call # NoCall
    /\ result = NoResult
    /\ result' = generate_quote(call.r, call.fb)
    /\ UNCHANGED <<phase, reply, schedVars, historyVars, firing, call>>

NextGen == generate_quote_call

SpecGen == InitGen /\ [][NextGen]_vars

-----------------------------------------------------------------------------
(* Properties *)

Min(a, b) == IF a < b THEN a ELSE b

\* the history holds exactly the last Min(n, 30) of n appends, in append order
LastAppended(n) ==
    /\ Len(quotes_history) = Min(n, MAX_HISTORY)
    /\ \A i \in DOMAIN quotes_history :
          quotes_history[i].seq = n - Len(quotes_history) + i

\* C1: in every state a handler can observe, and so in every GET /quotes reply,
\* the history holds at most 30 entries.
HistoryAtMost30 ==
    /\ Len(quotes_history) <= MAX_HISTORY
    /\ reply.op = "get_quotes" => Len(reply.body) <= MAX_HISTORY

\* C2: after N store_daily_quote operations run one after another from the empty
\* history (none overlapping another, none cancelled by scheduler.shutdown(), no
\* GET /latest), the history holds the last min(N, 30) appended entries in append
\* order; [e1..e30] plus e31 is [e2..e31].
SequentialStores ==
    (~overlapped /\ InflightTotal = 0 /\ latestAppended = 0
                 /\ firing.state # "cancelled")
        => /\ appended = genCalls
           /\ LastAppended(appended)

SequentialStoresWitness ==
    /\ ~overlapped /\ InflightTotal = 0 /\ latestAppended = 0
    /\ appended = MAX_HISTORY + 1
    /\ quotes_history[1].seq = 2
    /\ quotes_history[MAX_HISTORY].seq = MAX_HISTORY + 1

\* C3: after startup, and after any set_schedule call with a valid hour and minute
\* has returned, the scheduler holds exactly one job, "daily_quote", at the hour
\* and minute of the latest set_schedule, or at 9:00 if there has been none.
ExactlyOneJob ==
    (phase # "created" /\ lastSet.state \in {"never", "ok"})
        => /\ Len(jobs) = 1
           /\ jobs[1] = IF lastSet.state = "never"
                        THEN Job(DefaultHour, DefaultMinute)
                        ELSE Job(lastSet.hour, lastSet.minute)

ExactlyOneJobWitness ==
    /\ setCalls = 2
    /\ lastSet = [state |-> "ok", hour |-> 23, minute |-> 5]
    /\ jobs = <<Job(23, 5)>>

\* C4: a set_schedule request with an hour outside 0..23 or a minute outside 0..59
\* is answered with a client error and leaves the job store as it was, so one job
\* remains.
InvalidScheduleRejected ==
    (reply.op = "set_schedule" /\ lastSet.state = "failed")
        => /\ reply.status \in 400..499
           /\ jobs = lastSet.before
           /\ Len(jobs) = 1

\* C5: a GET /latest that resumes on a still empty history with nothing else in
\* flight has made the only generation, appends one entry (length 1) and returns it.
LatestOnEmpty ==
    [][ (reply'.op = "latest" /\ inflight'.latest < inflight.latest
         /\ quotes_history = <<>> /\ InflightTotal = 1)
        => /\ reply'.status = 200
           /\ genCalls' = 1
           /\ appended' = appended + 1
           /\ Len(quotes_history') = 1
           /\ reply'.body = quotes_history'[1] ]_vars

LatestOnEmptyWitness ==
    /\ reply.op = "latest"
    /\ reply.generated
    /\ genCalls = 1
    /\ appended = 1
    /\ quotes_history = <<reply.body>>

\* the texts of the fallback pool
FallbackTexts == { fallback_quotes[i] : i \in DOMAIN fallback_quotes }

\* C6: generate_quote returns and never raises; when the upstream call fails
\* (transport error, timeout, non-2xx, malformed or missing fields, non-string
\* content) it returns one of the five fallback quotes, a non-empty text.
GenerateQuoteFallsBack ==
    result # NoResult
        => /\ result.outcome = "return"
           /\ call.r \in FailedResponses
                => /\ result.value \in FallbackTexts
                   /\ result.value # <<>>

GenerateQuoteFallsBackWitness ==
    /\ result # NoResult
    /\ call.r = Http(200, Completion(JNum(1)))
    /\ result.value = fallback_quotes[3]

\* C7: once set_schedule(h, m) has returned for valid h and m, every get_schedule
\* reports hour h and minute m until the next set_schedule, whatever generations
\* and firings happen in between.
ScheduleRoundTrip ==
    (reply.op = "get_schedule" /\ lastSet.state = "ok")
        => /\ "schedule" \in DOMAIN reply
           /\ ParseSchedule(reply.schedule) = <<lastSet.hour, lastSet.minute>>
           /\ reply.next_run = <<lastSet.hour, lastSet.minute>>

ScheduleRoundTripWitness ==
    /\ reply.op = "get_schedule"
    /\ lastSet = [state |-> "ok", hour |-> 14, minute |-> 5]
    /\ appended = 2
    /\ reply.schedule = <<"1", "4", ":", "5">>

\* a step in which a store_daily_quote coroutine (generate-now or job) resumes
\* after its await, as opposed to being cancelled by scheduler.shutdown()
StoreResumes ==
    /\ inflight'.generate_now + inflight'.job < inflight.generate_now + inflight.job
    /\ firing'.state # "cancelled"

\* C8: every store_daily_quote that completes, under any interleaving of
\* generate-now requests and firings, appends exactly one entry and evicts at most
\* one; as long as only these have appended, K completions leave the last
\* min(K, 30) completed entries in completion order.
StoresInterleaved ==
    /\ [][ StoreResumes
           => /\ appended' = appended + 1
              /\ quotes_history'[Len(quotes_history')].seq = appended'
              /\ \/ quotes_history' = Append(quotes_history,
                                             quotes_history'[Len(quotes_history')])
                 \/ quotes_history' = Append(Tail(quotes_history),
                                             quotes_history'[Len(quotes_history')]) ]_vars
    /\ [](latestAppended = 0 => LastAppended(appended))

StoresInterleavedWitness ==
    /\ overlapped
    /\ latestAppended = 0
    /\ inflight.job = 1
    /\ appended = MAX_HISTORY + 1
    /\ quotes_history[1].seq = 2

\* C9: a get_schedule that runs between the two scheduler calls of a set_schedule
\* never finds the job store empty: it reports a schedule.
ConcurrentReaderSeesJob ==
    (reply.op = "get_schedule" /\ setpc # Idle) => "schedule" \in DOMAIN reply

\* C10: every entry of the history has non-empty content.
NonEmptyContent ==
    \A i \in DOMAIN quotes_history : quotes_history[i].quote # <<>>

\* C11: the timestamps of the history never decrease from index 0 to the tail,
\* whatever the order in which overlapping generations complete (the clock itself
\* never runs backwards).
TimestampsNonDecreasing ==
    \A i, j \in DOMAIN quotes_history :
        i < j => quotes_history[i].timestamp <= quotes_history[j].timestamp

TimestampsNonDecreasingWitness ==
    /\ overlapped
    /\ Len(quotes_history) = 2
    /\ quotes_history[1].timestamp < quotes_history[2].timestamp

\* C12: POST /generate-now appends exactly one new entry, returns that entry, and
\* leaves the job store and a set_schedule's progress as they were.
GenerateNowFrame ==
    [][ reply'.op = "generate_now"
        => /\ reply'.status = 200
           /\ appended' = appended + 1
           /\ reply'.body.seq = appended'
           /\ quotes_history' = IF Len(quotes_history) + 1 > MAX_HISTORY
                                THEN Tail(Append(quotes_history, reply'.body))
                                ELSE Append(quotes_history, reply'.body)
           /\ jobs' = jobs
           /\ setpc' = setpc
           /\ lastSet' = lastSet ]_vars

GenerateNowFrameWitness ==
    /\ reply.op = "generate_now"
    /\ reply.status = 200
    /\ jobs = <<Job(14, 5)>>
    /\ quotes_history = <<reply.body>>

\* the text before and after the colon of a schedule string
HourText(s) == SubSeq(s, 1, ColonAt(s) - 1)
MinuteText(s) == SubSeq(s, ColonAt(s) + 1, Len(s))

\* C13: with no job in the store get_schedule reports the no-schedule message and
\* no hour, minute or next run; with a job it reports that job's hour and minute,
\* never the "00" placeholders.
ScheduleReportMatchesStore ==
    reply.op = "get_schedule"
        => IF jobs = <<>>
           THEN /\ reply.message = "No scheduled quote generation"
                /\ DOMAIN reply \cap {"schedule", "next_run", "hour", "minute"} = {}
           ELSE /\ ParseSchedule(reply.schedule) = <<jobs[1].hour, jobs[1].minute>>
                /\ reply.next_run = <<jobs[1].hour, jobs[1].minute>>
                /\ HourText(reply.schedule) # <<"0", "0">>
                /\ MinuteText(reply.schedule) # <<"0", "0">>

ScheduleReportMatchesStoreWitness ==
    /\ reply.op = "get_schedule"
    /\ jobs = <<>>
    /\ setpc = Idle
    /\ "message" \in DOMAIN reply

\* C14: a GET /latest that found the history empty returns the entry it appended
\* itself, and all such requests together append exactly one entry.
LatestAppendsOnce ==
    /\ latestAppended <= 1
    /\ (reply.op = "latest" /\ reply.status = 200 /\ reply.generated)
          => reply.body.seq = appended

\* C15: a GET /latest on a history that holds something generates nothing, returns
\* the tail and changes neither the history nor the schedule; a GET /latest on the
\* empty history does not change the schedule either.
LatestFrame ==
    /\ [][ (reply'.op = "latest" \/ inflight'.latest # inflight.latest)
              => /\ jobs' = jobs
                 /\ setpc' = setpc
                 /\ lastSet' = lastSet
                 /\ firing' = firing
                 /\ inflight'.job = inflight.job ]_vars
    /\ [][ (reply'.op = "latest" /\ quotes_history # <<>>
                /\ inflight'.latest = inflight.latest)
              => /\ genCalls' = genCalls
                 /\ quotes_history' = quotes_history
                 /\ reply'.body = quotes_history[Len(quotes_history)] ]_vars

LatestFrameWitness ==
    /\ reply.op = "latest"
    /\ ~reply.generated
    /\ Len(quotes_history) = 2
    /\ reply.body = quotes_history[2]
    /\ lastSet.state = "ok"

\* C16: a step changes the history only by appending one entry at the tail, and
\* removes the entry at index 0 with it only when the length would pass 30;
\* nothing else is removed, rewritten or reordered.
HistoryAppendOnly ==
    [][ \/ quotes_history' = quotes_history
        \/ /\ quotes_history' # <<>>
           /\ LET new == quotes_history'[Len(quotes_history')]
              IN  \/ quotes_history' = Append(quotes_history, new)
                  \/ /\ Len(quotes_history) + 1 > MAX_HISTORY
                     /\ quotes_history' = Tail(Append(quotes_history, new)) ]_vars

HistoryAppendOnlyWitness ==
    /\ reply.op = "generate_now"
    /\ Len(quotes_history) = MAX_HISTORY
    /\ quotes_history[1].seq = 2
    /\ reply.body = quotes_history[MAX_HISTORY]

\* C17: a set_schedule does not touch a run of the job that is in flight, the run
\* still makes its one append, and every firing that starts is for the job in the
\* store: for the hour and minute of the latest set_schedule once it has returned.
RescheduleKeepsRun ==
    /\ [][ (setpc' # setpc) => (inflight' = inflight /\ firing' = firing
                                /\ quotes_history' = quotes_history) ]_vars
    /\ [][ (inflight'.job < inflight.job /\ phase' = phase)
              => appended' = appended + 1 ]_vars
    /\ [][ (firing' # firing /\ firing'.state = "running")
              => /\ jobs # <<>>
                 /\ <<firing'.hour, firing'.minute>> = <<jobs[1].hour, jobs[1].minute>>
                 /\ lastSet.state = "ok"
                      => <<firing'.hour, firing'.minute>>
                            = <<lastSet.hour, lastSet.minute>> ]_vars

RescheduleKeepsRunWitness ==
    /\ firing = [state |-> "running", hour |-> DefaultHour, minute |-> DefaultMinute]
    /\ inflight.job = 1
    /\ lastSet = [state |-> "ok", hour |-> 14, minute |-> 5]
    /\ jobs = <<Job(14, 5)>>

ShutdownKeepsBound ==
    firing.state = "finished_after_shutdown"
        => Len(quotes_history) <= MAX_HISTORY

====
